---- MODULE Spec2Model ----
(***************************************************************************)
(* A model of ckerner/ssacl: the mmacls class and the module functions of  *)
(* ssacl.py, and the older function variants of ss-acl.py.                 *)
(*                                                                         *)
(* Python strings are sequences of one-character strings, so that the      *)
(* substring tests ('user::' in line), line.split(':') and the slices      *)
(* [0:4] and [1:5] are computed as the code computes them.  A Python dict  *)
(* is a function whose DOMAIN is the set of keys present.  The text a      *)
(* command prints is the sequence of its lines (output.splitlines()).      *)
(***************************************************************************)
EXTENDS Naturals, Sequences, FiniteSets, TLC

\* ------------------------------------------------------------- bounds

\* The number of entry lines that follow the unnamed entries of a dump.
MaxLines == 2

\* ------------------------------------------------------ Python strings

Min(a, b) == IF a < b THEN a ELSE b

\* pat in s
Contains(s, pat) ==
  \E i \in 1..Len(s) :
     i + Len(pat) - 1 <= Len(s) /\ \A j \in 1..Len(pat) : s[i + j - 1] = pat[j]

\* s[a:b] for 0 <= a <= b
Slice(s, a, b) ==
  IF a + 1 > Min(b, Len(s)) THEN <<>> ELSE SubSeq(s, a + 1, Min(b, Len(s)))

\* s.split(':')
FirstColon(s) == CHOOSE k \in 1..Len(s) : s[k] = ":" /\ \A j \in 1..(k - 1) : s[j] # ":"

RECURSIVE Split(_)
SplitAt(s, i) == <<Slice(s, 0, i - 1)>> \o Split(Slice(s, i, Len(s)))
Split(s) == IF \A i \in 1..Len(s) : s[i] # ":" THEN <<s>> ELSE SplitAt(s, FirstColon(s))

\* ------------------------------------------------------- Python dicts

EmptyDict == <<>>
Has(d, k) == k \in DOMAIN d
Put(d, k, v) == [x \in (DOMAIN d) \cup {k} |-> IF x = k THEN v ELSE d[x]]
Del(d, k) == [x \in (DOMAIN d) \ {k} |-> d[x]]

\* --------------------------------------------------- the text literals

StrOwner   == <<"#", "o", "w", "n", "e", "r", ":">>
StrGroup   == <<"#", "g", "r", "o", "u", "p", ":">>
StrUser2   == <<"u", "s", "e", "r", ":", ":">>
StrGroup1  == <<"g", "r", "o", "u", "p", ":">>
StrGroup2  == <<"g", "r", "o", "u", "p", ":", ":">>
StrOther2  == <<"o", "t", "h", "e", "r", ":", ":">>
StrMask2   == <<"m", "a", "s", "k", ":", ":">>
StrUser1   == <<"u", "s", "e", "r", ":">>
StrColon   == <<":">>
DefaultMask == <<"r", "w", "x", "c">>
Unknown4   == <<"?", "?", "?", "?">>
Dashes4    == <<"-", "-", "-", "-">>
NotInGpfs  == <<"F", "i", "l", "e", " ", "i", "s", " ", "n", "o", "t", " ",
                "i", "n", " ", "g", "p", "f", "s", ".">>

\* ------------------------------------------------------------- decode

\* The outcome of a step of the parse: the dict so far, and what was raised.
Ok(d) == [d |-> d, exc |-> "none"]
Raise(d, e) == [d |-> d, exc |-> e]

\* mydict[key] = f[idx], f being line.split(':')
SetFieldOf(mydict, key, f, idx) ==
  IF Len(f) < idx + 1 THEN Raise(mydict, "IndexError")
  ELSE Ok(Put(mydict, key, f[idx + 1]))

SetField(mydict, key, line, idx) == SetFieldOf(mydict, key, Split(line), idx)

\* mydict[key][name] = e
PutEntry(mydict, key, name, e) == Put(mydict, key, Put(mydict[key], name, e))

\* The entry of a named line: {} first, then PERMS = f[2][0:4], then
\* EFFECTIVE = f[3][1:5].
EntryPerms(f) == Put(EmptyDict, "PERMS", Slice(f[3], 0, 4))
EntryFull(f) == Put(EntryPerms(f), "EFFECTIVE", Slice(f[4], 1, 5))

\* name = f[1]; mydict[key][name] = {}; ...['PERMS'] = ...; ...['EFFECTIVE'] = ...
NamedEntryOf(mydict, key, f) ==
  IF Len(f) < 3 THEN Raise(PutEntry(mydict, key, f[2], EmptyDict), "IndexError")
  ELSE IF Len(f) < 4 THEN Raise(PutEntry(mydict, key, f[2], EntryPerms(f)), "IndexError")
  ELSE Ok(PutEntry(mydict, key, f[2], EntryFull(f)))

NamedEntry(mydict, key, line) == NamedEntryOf(mydict, key, Split(line))

\* A line no branch of the if/elif chain takes leaves mydict as it is.
Unmatched(mydict, line) == Ok(mydict)

\* One turn of the loop over output.splitlines().
DecodeLine(mydict, line) ==
  IF Contains(line, StrOwner) THEN SetField(mydict, "OWNER", line, 1)
  ELSE IF Contains(line, StrGroup) THEN SetField(mydict, "GROUP", line, 1)
  ELSE IF Contains(line, StrUser2) THEN
         IF Split(line)[2] = <<>> THEN SetField(mydict, "USERP", line, 2)
         ELSE NamedEntry(mydict, "USERS", line)
  ELSE IF Contains(line, StrGroup1) THEN
         IF Split(line)[2] = <<>> THEN SetField(mydict, "GROUPP", line, 2)
         ELSE NamedEntry(mydict, "GROUPS", line)
  ELSE IF Contains(line, StrOther2) THEN SetField(mydict, "OTHERP", line, 2)
  ELSE IF Contains(line, StrMask2) THEN SetField(mydict, "MASK", line, 2)
  ELSE Unmatched(mydict, line)

\* The loop: it stops at the first line that raises.
RECURSIVE DecodeFrom(_, _)
DecodeRest(r, rest) == IF r.exc # "none" THEN r ELSE DecodeFrom(r.d, rest)
DecodeFrom(mydict, lines) ==
  IF lines = <<>> THEN Ok(mydict)
  ELSE DecodeRest(DecodeLine(mydict, Head(lines)), Tail(lines))

\* mydict as get_acl starts it, with mydict['FQPN'] = fqpn.
NewDict(fqpn) == [GROUPS |-> EmptyDict, USERS |-> EmptyDict, FQPN |-> fqpn]

\* mydict as get_default_acl of ss-acl.py starts it: no FQPN.
NewDefaultDict == [GROUPS |-> EmptyDict, USERS |-> EmptyDict]

Decode(fqpn, lines) == DecodeFrom(NewDict(fqpn), lines)

\* ----------------------------------------------------- run_cmd, twice

ExitCodes == {0, 1, 22}

\* run_cmd of ssacl.py: the text the caller gets, or UserWarning.
RunCmd(rc, out) ==
  IF rc = 22 THEN [exc |-> "none", out |-> <<NotInGpfs>>]
  ELSE IF rc # 0 THEN [exc |-> "UserWarning", out |-> <<>>]
  ELSE [exc |-> "none", out |-> out]

\* run_cmd of ss-acl.py: every exit code but 0 raises.
SsRunCmd(rc, out) ==
  IF rc # 0 THEN [exc |-> "UserWarning", out |-> <<>>]
  ELSE [exc |-> "none", out |-> out]

\* ------------------------------------------------------------- encode

\* The three fd.write of the unnamed entries; a missing key raises KeyError
\* with the file holding what was written before it.
UnnamedLines(myacls) ==
  IF ~Has(myacls, "USERP") THEN [lines |-> <<>>, exc |-> "KeyError"]
  ELSE IF ~Has(myacls, "GROUPP")
    THEN [lines |-> <<StrUser2 \o myacls["USERP"]>>, exc |-> "KeyError"]
  ELSE IF ~Has(myacls, "OTHERP")
    THEN [lines |-> <<StrUser2 \o myacls["USERP"], StrGroup2 \o myacls["GROUPP"]>>,
          exc |-> "KeyError"]
  ELSE [lines |-> <<StrUser2 \o myacls["USERP"], StrGroup2 \o myacls["GROUPP"],
                    StrOther2 \o myacls["OTHERP"]>>,
        exc |-> "none"]

\* A writer that always supplies the default mask when none is stored.
MaskLinesAlways(myacls) ==
  IF Has(myacls, "MASK") THEN <<StrMask2 \o myacls["MASK"]>>
  ELSE <<StrMask2 \o DefaultMask>>

\* A writer that writes a mask line for a stored mask only.
MaskLinesStored(myacls) ==
  IF Has(myacls, "MASK") THEN <<StrMask2 \o myacls["MASK"]>> ELSE <<>>

\* The mask line: the stored mask, or the default one when the dict has both
\* the USERS and the GROUPS key, or none.
MaskLines(myacls) ==
  IF Has(myacls, "MASK") THEN <<StrMask2 \o myacls["MASK"]>>
  ELSE IF Has(myacls, "USERS") /\ Has(myacls, "GROUPS")
    THEN <<StrMask2 \o DefaultMask>>
  ELSE <<>>

\* The orders in which a dict may hand out its keys.
Orders(S) ==
  {o \in [1..Cardinality(S) -> S] : \A i, j \in 1..Cardinality(S) : o[i] = o[j] => i = j}

\* for name in m.keys(): fd.write( prefix + name + ":" + m[name]['PERMS'] )
NamedLines(prefix, m, ord) ==
  [i \in 1..Len(ord) |-> prefix \o ord[i] \o StrColon \o m[ord[i]]["PERMS"]]

UsersLines(myacls, uord) ==
  IF Has(myacls, "USERS") THEN NamedLines(StrUser1, myacls["USERS"], uord) ELSE <<>>

GroupsLines(myacls, gord) ==
  IF Has(myacls, "GROUPS") THEN NamedLines(StrGroup1, myacls["GROUPS"], gord) ELSE <<>>

KeyOrders(myacls, key) ==
  IF Has(myacls, key) THEN Orders(DOMAIN myacls[key]) ELSE {<<>>}

\* The lines write_acl_file leaves in the file.
EncodeRest(u, rest) ==
  IF u.exc # "none" THEN u ELSE [lines |-> u.lines \o rest, exc |-> "none"]

Encode(myacls, uord, gord) ==
  EncodeRest(UnnamedLines(myacls),
             MaskLines(myacls) \o UsersLines(myacls, uord) \o GroupsLines(myacls, gord))

\* ------------------------------------------------------------- lookup

\* self.acls before get_acl ever assigned it: the attribute does not exist.
Unset == [attr |-> "absent"]
NoneVal == [none |-> TRUE]

IsDict(v) == v # Unset /\ v # NoneVal

\* get_group_acl of the class, on the value of self.acls.
GetGroupAclOf(a, group) ==
  IF a = Unset THEN [exc |-> "AttributeError", ret |-> NoneVal]
  ELSE IF a = NoneVal THEN [exc |-> "none", ret |-> Unknown4]
  ELSE IF ~Has(a, "GROUPS") THEN [exc |-> "KeyError", ret |-> NoneVal]
  ELSE IF group \in DOMAIN a["GROUPS"]
    THEN [exc |-> "none", ret |-> a["GROUPS"][group]["PERMS"]]
  ELSE [exc |-> "none", ret |-> Dashes4]

\* A clear_acls that forgets the named groups.
ClearedButGroups(a) ==
  LET a1 == IF Has(a, "MASK") THEN Del(a, "MASK") ELSE a
  IN  IF Has(a1, "USERS") THEN Del(a1, "USERS") ELSE a1

\* clear_acls on a dict.
Cleared(a) ==
  LET a1 == IF Has(a, "MASK") THEN Del(a, "MASK") ELSE a
      a2 == IF Has(a1, "USERS") THEN Del(a1, "USERS") ELSE a1
  IN  IF Has(a2, "GROUPS") THEN Del(a2, "GROUPS") ELSE a2

\* -------------------------------------------- what mmgetacl may print

LOwner     == StrOwner  \o <<"a", "l">>
LGroup     == StrGroup  \o <<"s", "t">>
LUserP     == StrUser2  \o <<"r", "w", "x", "c">>
LGroupP    == StrGroup2 \o <<"r", "-", "x", "c">>
LOtherP    == StrOther2 \o <<"-", "-", "-", "c">>
LMask      == StrMask2  \o <<"r", "-", "x", "c">>

NameBob    == <<"b", "o", "b">>
NameAdm    == <<"a", "d", "m">>
NameWgroup == <<"w", "g", "r", "o", "u", "p">>

\* user:bob:rw-c:+rw-c
LUserBob   == StrUser1 \o NameBob \o <<":", "r", "w", "-", "c", ":", "+", "r", "w", "-", "c">>
\* user:wgroup:rwxc:+rwxc and group:wgroup:r-x-:+r-x-
LUserWg    == StrUser1 \o NameWgroup \o <<":", "r", "w", "x", "c", ":", "+", "r", "w", "x", "c">>
LGroupWg   == StrGroup1 \o NameWgroup \o <<":", "r", "-", "x", "-", ":", "+", "r", "-", "x", "-">>
\* foo::bar
LFoo       == <<"f", "o", "o", ":", ":", "b", "a", "r">>
\* xmask::r---
LXMask     == <<"x">> \o StrMask2 \o <<"r", "-", "-", "-">>
\* group:adm:rwxc, a named line cut before its effective field
LTrunc     == StrGroup1 \o NameAdm \o <<":", "r", "w", "x", "c">>

\* A dump starts with the owner, the group and the unnamed entries, with or
\* without a mask line.
HeadNoMask == <<LOwner, LGroup, LUserP, LGroupP, LOtherP>>
HeadMask   == HeadNoMask \o <<LMask>>
\* The unnamed entries alone, in another order: other::r---, user::rw-c, group::----
HeadPlain  == <<StrOther2 \o <<"r", "-", "-", "-">>, StrUser2 \o <<"r", "w", "-", "c">>,
               StrGroup2 \o <<"-", "-", "-", "-">>>>
Heads      == {HeadNoMask, HeadMask, HeadPlain}

\* What follows the head when the instance is made: nothing, or a named group.
Bodies     == {<<>>, <<LGroupWg>>}

\* The lines that may follow.
Pool == {LUserBob, LUserWg, LGroupWg, LFoo, LXMask, LTrunc}

\* What mmgetacl -d may print for the directory.
DefaultTexts == {HeadNoMask \o <<LGroupWg>>, <<LUserP, LTrunc>>}

GroupNames == {NameAdm, NameWgroup}

\* The path the instance is made for.
Path == <<"/", "d", "/", "f">>

\* The file name a caller may pass.
FileNames == {NoneVal, Path}

\* -------------------------------------------------------------- state

VARIABLES
  head,          \* the start of what mmgetacl prints for Path
  body,          \* the lines after it
  inst,          \* "none": no instance; "nofile": filename is None; "ok"
  acls,          \* self.acls
  last,          \* the last call: what it was given and how it ended
  debug,         \* self.debug
  dryrun,        \* self.dryrun
  verbose,       \* self.verbose
  printed        \* the commands the last set_acl / set_default_acl printed

flags == <<debug, dryrun, verbose>>

vars == <<head, body, inst, acls, last, debug, dryrun, verbose, printed>>

Text == head \o body

Done(op, arg, exists, cmd, rc, out, exc, ret) ==
  [op |-> op, arg |-> arg, exists |-> exists, cmd |-> cmd, rc |-> rc, out |-> out,
   exc |-> exc, ret |-> ret]

Init ==
  /\ head \in Heads
  /\ body \in Bodies
  /\ inst = "none"
  /\ acls = Unset
  /\ last = Done("start", NoneVal, TRUE, "none", 0, <<>>, "none", NoneVal)
  /\ debug = FALSE
  /\ dryrun = FALSE
  /\ verbose = FALSE
  /\ printed = <<>>

\* ----------------------------------------------------- the mmacls class

\* run_cmd and the loop of get_acl / get_default_acl: mydict as it stands when
\* the method ends or raises, and the text that was parsed.
WithOut(r, out) == [d |-> r.d, exc |-> r.exc, out |-> out]

DecodeOutput(mydict, c) ==
  IF c.exc # "none" THEN [d |-> mydict, exc |-> c.exc, out |-> c.out]
  ELSE WithOut(DecodeFrom(mydict, c.out), c.out)

DecodeRun(mydict, rc, out) == DecodeOutput(mydict, RunCmd(rc, out))

\* A get_acl that assigns self.acls before the loop ends.
StorePartial(old, r) == r.d

\* self.acls = mydict is the last statement: an exception leaves self.acls.
Store(old, r) == IF r.exc = "none" THEN r.d ELSE old

\* mmacls( fname ), the path being there: get_acl ends the constructor.
Constructed(r, rc) ==
  /\ inst' = IF r.exc = "none" THEN "ok" ELSE "none"
  /\ acls' = Store(acls, r)
  /\ last' = Done("init", NoneVal, TRUE, "mmgetacl", rc, r.out, r.exc, NoneVal)

\* mmacls( fname )
Construct ==
  /\ inst = "none"
  /\ \E exists \in BOOLEAN, rc \in ExitCodes :
       IF ~exists
         THEN /\ inst' = "nofile"
              /\ last' = Done("init", NoneVal, FALSE, "none", 0, <<>>, "none", NoneVal)
              /\ UNCHANGED acls
         ELSE Constructed(DecodeRun(NewDict(Path), rc, Text), rc)
  /\ debug' = FALSE
  /\ dryrun' = FALSE
  /\ verbose' = FALSE
  /\ UNCHANGED <<head, body, printed>>

GotAcl(r, rc) ==
  /\ acls' = Store(acls, r)
  /\ last' = Done("get_acl", NoneVal, TRUE, "mmgetacl", rc, r.out, r.exc, NoneVal)

\* self.get_acl()
GetAcl ==
  /\ inst # "none"
  /\ IF inst = "nofile"
       THEN /\ last' = Done("get_acl", NoneVal, FALSE, "none", 0, <<>>, "TypeError", NoneVal)
            /\ UNCHANGED acls
       ELSE \E rc \in ExitCodes : GotAcl(DecodeRun(NewDict(Path), rc, Text), rc)
  /\ UNCHANGED <<head, body, inst, flags, printed>>

\* self.clear_acls()
ClearAcls ==
  /\ inst # "none"
  /\ IF acls = Unset
       THEN /\ last' = Done("clear_acls", NoneVal, FALSE, "none", 0, <<>>,
                            "AttributeError", NoneVal)
            /\ UNCHANGED acls
       ELSE /\ acls' = Cleared(acls)
            /\ last' = Done("clear_acls", NoneVal, TRUE, "none", 0, <<>>, "none", NoneVal)
  /\ UNCHANGED <<head, body, inst, flags, printed>>

GotGroupAcl(group, r) ==
  last' = Done("get_group_acl", group, inst = "ok", "none", 0, <<>>, r.exc, r.ret)

\* self.get_group_acl( group )
GetGroupAcl ==
  /\ inst # "none"
  /\ \E group \in GroupNames : GotGroupAcl(group, GetGroupAclOf(acls, group))
  /\ UNCHANGED <<head, body, inst, acls, flags, printed>>

\* ------------------------------------------------------ write_acl_file

\* What a caller hands to write_acl_file: self.acls, an empty dict, None.
WriteArgs == {NoneVal, EmptyDict} \cup (IF acls = Unset THEN {} ELSE {acls})

Wrote(myacls, w) ==
  last' = Done("write_acl_file", myacls, TRUE, "none", 0, <<>>, w.exc, w.lines)

\* write_acl_file( aclfile, myacls )
WriteAclFile ==
  /\ \E myacls \in WriteArgs, aclfile \in BOOLEAN :
       IF myacls = NoneVal \/ myacls = EmptyDict \/ ~aclfile
         THEN last' = Done("write_acl_file", myacls, aclfile, "none", 0, <<>>, "none", NoneVal)
         ELSE \E uord \in KeyOrders(myacls, "USERS"), gord \in KeyOrders(myacls, "GROUPS") :
                Wrote(myacls, Encode(myacls, uord, gord))
  /\ UNCHANGED <<head, body, inst, acls, flags, printed>>

\* ------------------------------------------------------- the flags

\* debug_on, dryrun_off, ...: a method that assigns one flag and nothing else.
FlagOp(op) ==
  /\ inst # "none"
  /\ last' = Done(op, NoneVal, TRUE, "none", 0, <<>>, "none", NoneVal)
  /\ UNCHANGED <<head, body, inst, acls, printed>>

DebugOn == FlagOp("debug_on") /\ debug' = TRUE /\ UNCHANGED <<dryrun, verbose>>

DebugOff == FlagOp("debug_off") /\ debug' = FALSE /\ UNCHANGED <<dryrun, verbose>>

ToggleDebug ==
  /\ FlagOp("toggle_debug")
  /\ debug' = (IF debug = TRUE THEN FALSE ELSE TRUE)
  /\ UNCHANGED <<dryrun, verbose>>

DryrunOn == FlagOp("dryrun_on") /\ dryrun' = TRUE /\ UNCHANGED <<debug, verbose>>

DryrunOff == FlagOp("dryrun_off") /\ dryrun' = FALSE /\ UNCHANGED <<debug, verbose>>

ToggleDryrun ==
  /\ FlagOp("toggle_dryrun")
  /\ dryrun' = (IF dryrun = FALSE THEN TRUE ELSE FALSE)
  /\ UNCHANGED <<debug, verbose>>

VerboseOn == FlagOp("verbose_on") /\ verbose' = TRUE /\ UNCHANGED <<debug, dryrun>>

VerboseOff == FlagOp("verbose_off") /\ verbose' = FALSE /\ UNCHANGED <<debug, dryrun>>

ToggleVerbose ==
  /\ FlagOp("toggle_verbose")
  /\ verbose' = (IF verbose = FALSE THEN TRUE ELSE FALSE)
  /\ UNCHANGED <<debug, dryrun>>

\* ------------------------------------------- set_acl, set_default_acl

OptAcl        == "mmputacl -i"
OptDefaultAcl == "mmputacl -d -i"

\* The file of ACL lines a caller hands over.
AclFile  == <<"/", "t", "/", "a">>
AclFiles == {NoneVal, AclFile}

\* self.filename: None when the path of the instance does not exist.
Filename == IF inst = "ok" THEN Path ELSE NoneVal

\* cmd = MMPUTACL + '-i ' + aclfile + ' ' + filename: the command line, by its
\* parts; a str and None do not add up.
PutCmd(opt, aclfile, filename) ==
  IF aclfile = NoneVal \/ filename = NoneVal
    THEN [exc |-> "TypeError", cmd |-> <<>>]
    ELSE [exc |-> "none", cmd |-> <<opt, aclfile, filename>>]

\* What the call saw: its file names and the two flags it reads.
PutArgs(aclfile, filename, dry, verb) ==
  [aclfile |-> aclfile, filename |-> filename, dryrun |-> dry, verbose |-> verb]

\* A set_acl that lets verbose run the command in a dry run.
PutAclVerboseRuns(c, dry, verb, rc) ==
  IF c.exc # "none" THEN [exc |-> c.exc, printed |-> <<>>, ran |-> FALSE]
  ELSE IF dry /\ ~verb THEN [exc |-> "none", printed |-> <<c.cmd>>, ran |-> FALSE]
  ELSE [exc |-> RunCmd(rc, <<>>).exc, printed |-> IF verb THEN <<c.cmd>> ELSE <<>>,
        ran |-> TRUE]

\* if dryrun: print( cmd ) else: if verbose: print( cmd ); run_cmd( cmd )
PutAcl(c, dry, verb, rc) ==
  IF c.exc # "none" THEN [exc |-> c.exc, printed |-> <<>>, ran |-> FALSE]
  ELSE IF dry THEN [exc |-> "none", printed |-> <<c.cmd>>, ran |-> FALSE]
  ELSE [exc |-> RunCmd(rc, <<>>).exc, printed |-> IF verb THEN <<c.cmd>> ELSE <<>>,
        ran |-> TRUE]

\* The call ends: what it printed, and the command it ran, if it ran one.
DidPut(op, opt, args, rc, r) ==
  /\ printed' = r.printed
  /\ last' = Done(op, args, args.filename # NoneVal, IF r.ran THEN opt ELSE "none",
                  IF r.ran THEN rc ELSE 0, <<>>, r.exc, NoneVal)

Put1(op, opt, aclfile, filename, dry, verb, rc) ==
  DidPut(op, opt, PutArgs(aclfile, filename, dry, verb), rc,
         PutAcl(PutCmd(opt, aclfile, filename), dry, verb, rc))

\* self.set_acl( aclfile )
SetAcl ==
  /\ inst # "none"
  /\ \E aclfile \in AclFiles, rc \in ExitCodes :
       Put1("set_acl", OptAcl, aclfile, Filename, dryrun, verbose, rc)
  /\ UNCHANGED <<head, body, inst, acls, flags>>

\* self.set_default_acl( aclfile )
SetDefaultAcl ==
  /\ inst # "none"
  /\ \E aclfile \in AclFiles, rc \in ExitCodes :
       Put1("set_default_acl", OptDefaultAcl, aclfile, Filename, dryrun, verbose, rc)
  /\ UNCHANGED <<head, body, inst, acls, flags>>

\* set_acl( filename, aclfile, dryrun, verbose ) of the module
FnSetAcl ==
  /\ \E filename \in FileNames, aclfile \in AclFiles, dry \in BOOLEAN, verb \in BOOLEAN,
        rc \in ExitCodes :
       Put1("fn_set_acl", OptAcl, aclfile, filename, dry, verb, rc)
  /\ UNCHANGED <<head, body, inst, acls, flags>>

\* set_default_acl( filename, aclfile, dryrun, verbose ) of the module
FnSetDefaultAcl ==
  /\ \E filename \in FileNames, aclfile \in AclFiles, dry \in BOOLEAN, verb \in BOOLEAN,
        rc \in ExitCodes :
       Put1("fn_set_default_acl", OptDefaultAcl, aclfile, filename, dry, verb, rc)
  /\ UNCHANGED <<head, body, inst, acls, flags>>

\* ------------------------------------------------ ss-acl.py's functions

NoDict(exc, out, ran) == [exc |-> exc, ret |-> NoneVal, out |-> out, ran |-> ran]

\* return mydict, unless the loop raised
SsParsed(r, out) ==
  [exc |-> r.exc, ret |-> IF r.exc = "none" THEN r.d ELSE NoneVal, out |-> out, ran |-> TRUE]

SsDecodeOutput(mydict, c) ==
  IF c.exc # "none" THEN NoDict(c.exc, c.out, TRUE)
  ELSE SsParsed(DecodeFrom(mydict, c.out), c.out)

\* get_acl( fnam ): None, the dict, or what was raised.
SsGetAclOf(fnam, exists, kind, rc, out) ==
  IF fnam = NoneVal \/ ~exists THEN NoDict("none", <<>>, FALSE)
  ELSE SsDecodeOutput(Put(NewDict(fnam), "TYPE", kind), SsRunCmd(rc, out))

\* get_default_acl( fnam )
SsGetDefaultAclOf(fnam, exists, rc, out) ==
  IF fnam = NoneVal \/ ~exists THEN NoDict("none", <<>>, FALSE)
  ELSE SsDecodeOutput(NewDefaultDict, SsRunCmd(rc, out))

\* The three results of check_group_acl, on what get_acl gave.
SsLookup(g, group) ==
  IF g.exc # "none" THEN g
  ELSE IF g.ret = NoneVal THEN [g EXCEPT !.ret = Unknown4]
  ELSE IF group \in DOMAIN g.ret["GROUPS"]
    THEN [g EXCEPT !.ret = g.ret["GROUPS"][group]["PERMS"]]
  ELSE [g EXCEPT !.ret = Dashes4]

\* check_group_acl( fnam, group )
SsCheckGroupAclOf(fnam, exists, kind, rc, out, group) ==
  SsLookup(SsGetAclOf(fnam, exists, kind, rc, out), group)

Kinds == {"d", "f", "u"}

SsDone(op, arg, exists, cmd, rc, g) ==
  last' = Done(op, arg, exists, IF g.ran THEN cmd ELSE "none", IF g.ran THEN rc ELSE 0,
               g.out, g.exc, g.ret)

SsGetAcl ==
  /\ \E fnam \in FileNames, exists \in BOOLEAN, kind \in Kinds, rc \in ExitCodes :
       SsDone("ss_get_acl", fnam, exists, "mmgetacl", rc,
              SsGetAclOf(fnam, exists, kind, rc, Text))
  /\ UNCHANGED <<head, body, inst, acls, flags, printed>>

SsGetDefaultAcl ==
  /\ \E fnam \in FileNames, exists \in BOOLEAN, rc \in ExitCodes, out \in DefaultTexts :
       SsDone("ss_get_default_acl", fnam, exists, "mmgetacl -d", rc,
              SsGetDefaultAclOf(fnam, exists, rc, out))
  /\ UNCHANGED <<head, body, inst, acls, flags, printed>>

SsCheckGroupAcl ==
  /\ \E fnam \in FileNames, exists \in BOOLEAN, kind \in Kinds, rc \in ExitCodes,
        group \in GroupNames :
       SsDone("ss_check_group_acl", group, fnam # NoneVal /\ exists, "mmgetacl", rc,
              SsCheckGroupAclOf(fnam, exists, kind, rc, Text, group))
  /\ UNCHANGED <<head, body, inst, acls, flags, printed>>

\* --------------------------------------------------------- environment

\* An entry is added to the ACL of Path: mmgetacl prints one more line.
FsAppend ==
  /\ Len(body) < MaxLines
  /\ \E l \in Pool : body' = Append(body, l)
  /\ last' = Done("fs", NoneVal, TRUE, "none", 0, <<>>, "none", NoneVal)
  /\ UNCHANGED <<head, inst, acls, flags, printed>>

\* The class and the module functions of ssacl.py.
Next ==
  \/ Construct
  \/ GetAcl
  \/ ClearAcls
  \/ GetGroupAcl
  \/ WriteAclFile
  \/ FsAppend

Spec == Init /\ [][Next]_vars

\* An instance, its flags and the commands that change the ACL of the path.
NextFlags ==
  \/ Construct
  \/ ClearAcls
  \/ DebugOn
  \/ DebugOff
  \/ ToggleDebug
  \/ DryrunOn
  \/ DryrunOff
  \/ ToggleDryrun
  \/ VerboseOn
  \/ VerboseOff
  \/ ToggleVerbose
  \/ SetAcl
  \/ SetDefaultAcl
  \/ FnSetAcl
  \/ FnSetDefaultAcl

SpecFlags == Init /\ [][NextFlags]_vars

\* The functions of ss-acl.py, a script of its own.
NextSs ==
  \/ SsGetAcl
  \/ SsGetDefaultAcl
  \/ SsCheckGroupAcl
  \/ FsAppend

SpecSs == Init /\ [][NextSs]_vars

\* ==================================================== the properties

\* ---- the grammar of the specification, read off the fields of a line

WordUser   == <<"u", "s", "e", "r">>
WordGroup  == <<"g", "r", "o", "u", "p">>
WordOther  == <<"o", "t", "h", "e", "r">>
WordMask   == <<"m", "a", "s", "k">>
WordOwner  == <<"#", "o", "w", "n", "e", "r">>
WordHGroup == <<"#", "g", "r", "o", "u", "p">>

StartsWith(s, pat) == Len(pat) <= Len(s) /\ \A j \in 1..Len(pat) : s[j] = pat[j]

\* user:<name>:<perm>:<effective> and group:<name>:<perm>:<effective>, name non-empty
IsNamedLine(word, l) ==
  Len(Split(l)) = 4 /\ Split(l)[1] = word /\ Split(l)[2] # <<>>

\* word::<perm>
IsUnnamedLine(word, l) ==
  Len(Split(l)) = 3 /\ Split(l)[1] = word /\ Split(l)[2] = <<>>

\* #owner:<name> and #group:<name>
IsHeaderLine(word, l) == Len(Split(l)) = 2 /\ Split(l)[1] = word

\* The field or the named entry a line of one of the eight forms populates.
Target(l) ==
  IF IsHeaderLine(WordOwner, l) THEN <<"owner", <<>>>>
  ELSE IF IsHeaderLine(WordHGroup, l) THEN <<"group", <<>>>>
  ELSE IF IsUnnamedLine(WordUser, l) THEN <<"userPerm", <<>>>>
  ELSE IF IsUnnamedLine(WordGroup, l) THEN <<"groupPerm", <<>>>>
  ELSE IF IsUnnamedLine(WordOther, l) THEN <<"otherPerm", <<>>>>
  ELSE IF IsUnnamedLine(WordMask, l) THEN <<"mask", <<>>>>
  ELSE IF IsNamedLine(WordUser, l) THEN <<"namedUsers", Split(l)[2]>>
  ELSE IF IsNamedLine(WordGroup, l) THEN <<"namedGroups", Split(l)[2]>>
  ELSE <<"none", <<>>>>

IsRecognized(l) == Target(l)[1] # "none"

\* The entry the specification gives a named line: perm[0:4], effective[1:5].
EntryOf(l) == [PERMS |-> Slice(Split(l)[3], 0, 4), EFFECTIVE |-> Slice(Split(l)[4], 1, 5)]

\* The last call was get_acl, alone or in the constructor, and it ran mmgetacl.
RanGetAcl == last.op \in {"init", "get_acl"} /\ last.cmd = "mmgetacl"

\* ... and it ended without raising: self.acls is what it decoded from last.out.
Decoded == RanGetAcl /\ last.exc = "none"

\* Line i is the last line of lines that populates its target.
IsLastFor(lines, i) == \A j \in (i + 1)..Len(lines) : Target(lines[j]) # Target(lines[i])

\* C1: every named-user line user:<name>:<perm>:<effective> of the input gives
\* USERS[<name>] with PERMS = perm[0:4] and EFFECTIVE = effective[1:5] (where a
\* name has several lines, the last of them).
C1_NamedUserDecoded ==
  Decoded =>
    \A i \in 1..Len(last.out) :
      (IsNamedLine(WordUser, last.out[i]) /\ IsLastFor(last.out, i)) =>
        /\ Split(last.out[i])[2] \in DOMAIN acls["USERS"]
        /\ acls["USERS"][Split(last.out[i])[2]] = EntryOf(last.out[i])

\* C2: with no record for the path (it does not exist, or the decode failed),
\* get_group_acl returns "????" and does not raise.
C2_UnknownWithoutRecord ==
  (last.op = "get_group_acl" /\ acls = Unset) =>
    (last.exc = "none" /\ last.ret = Unknown4)

\* C3: on a record, after a decode and any number of clear_acls, get_group_acl
\* returns "----" when the record has no entry for the group, and the stored
\* PERMS otherwise.
HasGroup(a, g) == Has(a, "GROUPS") /\ g \in DOMAIN a["GROUPS"]

C3_LookupOnRecord ==
  (last.op = "get_group_acl" /\ acls # Unset) =>
    /\ last.exc = "none"
    /\ last.ret = IF HasGroup(acls, last.arg) THEN acls["GROUPS"][last.arg]["PERMS"]
                  ELSE Dashes4

\* ---- write_acl_file

\* The last call was write_acl_file and it got to open the file.
Written ==
  /\ last.op = "write_acl_file"
  /\ last.exists
  /\ last.arg # NoneVal
  /\ last.arg # EmptyDict

HasUnnamed(a) == Has(a, "USERP") /\ Has(a, "GROUPP") /\ Has(a, "OTHERP")

IsMaskLine(l) == StartsWith(l, StrMask2)

MaskLinesOf(lines) == SelectSeq(lines, IsMaskLine)

\* C4 as claimed: the file holds exactly one mask line, the stored mask or else
\* mask::rwxc, with or without the maps of named entries.
C4_AlwaysOneMaskLine ==
  (Written /\ HasUnnamed(last.arg)) =>
    /\ last.exc = "none"
    /\ MaskLinesOf(last.ret) =
         <<StrMask2 \o (IF Has(last.arg, "MASK") THEN last.arg["MASK"] ELSE DefaultMask)>>

\* C4 as amended: the stored mask if there is one; else mask::rwxc when the
\* record has both the USERS and the GROUPS map; else no mask line at all.
C4_MaskLine ==
  (Written /\ HasUnnamed(last.arg)) =>
    /\ last.exc = "none"
    /\ MaskLinesOf(last.ret) =
         IF Has(last.arg, "MASK") THEN <<StrMask2 \o last.arg["MASK"]>>
         ELSE IF Has(last.arg, "USERS") /\ Has(last.arg, "GROUPS")
           THEN <<StrMask2 \o DefaultMask>>
         ELSE <<>>

\* A cleared record was written, and its file has no mask line.
C4_Witness ==
  /\ Written /\ HasUnnamed(last.arg)
  /\ last.arg = acls
  /\ ~Has(acls, "MASK") /\ ~Has(acls, "USERS") /\ ~Has(acls, "GROUPS")
  /\ MaskLinesOf(last.ret) = <<>>

\* ---- the round trip

\* The lines of one form, in the order of the text.
LinesOf(lines, word, named) ==
  SelectSeq(lines, LAMBDA l : IF named THEN IsNamedLine(word, l) ELSE IsUnnamedLine(word, l))

\* A dump with #owner, #group, one of each unnamed entry, one mask line, and
\* after them named lines only, one a name, with a named user and a named group.
IsFullDump(lines) ==
  /\ \A i \in 1..Len(lines) : IsRecognized(lines[i]) /\ IsLastFor(lines, i)
  /\ \A t \in {"owner", "group", "userPerm", "groupPerm", "otherPerm", "mask",
               "namedUsers", "namedGroups"} :
       \E i \in 1..Len(lines) : Target(lines[i])[1] = t

\* word:<name>:<perm> of a named line, the effective field left out
WithoutEffective(l) == Split(l)[1] \o StrColon \o Split(l)[2] \o StrColon \o Split(l)[3]

SeqToSet(q) == {q[i] : i \in 1..Len(q)}

\* The file the round trip is to give, the named lines of a kind in any order.
RoundTrips(lines) ==
  {   <<StrUser2  \o Split(LinesOf(lines, WordUser, FALSE)[1])[3],
        StrGroup2 \o Split(LinesOf(lines, WordGroup, FALSE)[1])[3],
        StrOther2 \o Split(LinesOf(lines, WordOther, FALSE)[1])[3],
        StrMask2  \o Split(LinesOf(lines, WordMask, FALSE)[1])[3]>>
   \o u \o g :
     u \in Orders({WithoutEffective(l) : l \in SeqToSet(LinesOf(lines, WordUser, TRUE))}),
     g \in Orders({WithoutEffective(l) : l \in SeqToSet(LinesOf(lines, WordGroup, TRUE))}) }

\* C5: the record decoded from a full dump, written back, gives user::,
\* group::, other::, mask::, then a user:<n>:<perm> line for every named user
\* line and a group:<n>:<perm> line for every named group line.
C5_RoundTrip ==
  (/\ Written
   /\ last.arg = acls
   /\ IsFullDump(Text)
   /\ acls = Decode(Path, Text).d) =>
    (last.exc = "none" /\ last.ret \in RoundTrips(Text))

\* A dump of recognized lines with one user::, one group::, one other:: line,
\* no mask line and no named line.
IsPlainDump(lines) ==
  /\ \A i \in 1..Len(lines) :
       /\ Target(lines[i])[1] \in {"owner", "group", "userPerm", "groupPerm", "otherPerm"}
       /\ IsLastFor(lines, i)
  /\ \A t \in {"userPerm", "groupPerm", "otherPerm"} :
       \E i \in 1..Len(lines) : Target(lines[i])[1] = t

\* C11: the record decoded from a dump with the three unnamed entries, no
\* mask and no named entry, written back, gives user::<userPerm>,
\* group::<groupPerm>, other::<otherPerm> in that order with the permissions
\* of the dump, then mask::rwxc, and nothing else.
C11_RoundTripNoMask ==
  (/\ Written
   /\ last.arg = acls
   /\ IsPlainDump(Text)
   /\ acls = Decode(Path, Text).d) =>
    /\ last.exc = "none"
    /\ last.ret = <<StrUser2  \o Split(LinesOf(Text, WordUser, FALSE)[1])[3],
                    StrGroup2 \o Split(LinesOf(Text, WordGroup, FALSE)[1])[3],
                    StrOther2 \o Split(LinesOf(Text, WordOther, FALSE)[1])[3],
                    StrMask2  \o DefaultMask>>

\* The dump of other::, user::, group:: in that order was decoded and written.
C11_Witness ==
  /\ Written
  /\ last.arg = acls
  /\ Text = HeadPlain
  /\ acls = Decode(Path, Text).d
  /\ Len(last.ret) = 4

\* ---- lenient decoding

Prefixes == {StrOwner, StrGroup, StrUser1, StrGroup1, StrOther2, StrMask2}

\* The substrings the if/elif chain looks for.
Substrings == {StrOwner, StrGroup, StrUser2, StrGroup1, StrOther2, StrMask2}

RemoveAt(q, i) == SubSeq(q, 1, i - 1) \o SubSeq(q, i + 1, Len(q))

\* get_acl on lines ends as the last call did, with the same record.
SameOutcome(lines) ==
  /\ DecodeFrom(NewDict(Path), lines).exc = last.exc
  /\ last.exc = "none" => DecodeFrom(NewDict(Path), lines).d = acls

\* C6: a line that begins with none of the recognized prefixes makes no
\* difference: the decode ends as it does with the line taken out.
C6_IgnoresUnknownPrefix ==
  (RanGetAcl /\ last.exc # "UserWarning") =>
    \A i \in 1..Len(last.out) :
      (\A p \in Prefixes : ~StartsWith(last.out[i], p)) =>
        SameOutcome(RemoveAt(last.out, i))

\* What the code gives in place of C6: a line that contains none of '#owner:',
\* '#group:', 'user::', 'group:', 'other::', 'mask::' anywhere makes no
\* difference.
C6_IgnoresUnmatched ==
  (RanGetAcl /\ last.exc # "UserWarning") =>
    \A i \in 1..Len(last.out) :
      (\A p \in Substrings : ~Contains(last.out[i], p)) =>
        SameOutcome(RemoveAt(last.out, i))

\* ---- run_cmd

\* C7: exit code 22 is never the generic failure.
C7_Exit22NotGeneric ==
  (last.cmd # "none" /\ last.rc = 22) => last.exc # "UserWarning"

\* ---- no partial record

\* get_acl cannot complete: mmgetacl fails, or a line cannot be parsed.
CannotDecode(rc, lines) ==
  \/ rc \notin {0, 22}
  \/ rc = 0 /\ DecodeFrom(NewDict(Path), lines).exc # "none"

\* C8: a get_acl that cannot complete raises and leaves self.acls as it was;
\* one that completes stores the whole of what it decoded.
C8_Step ==
  (last'.op \in {"init", "get_acl"} /\ last'.cmd = "mmgetacl") =>
    IF CannotDecode(last'.rc, Text)
      THEN last'.exc # "none" /\ acls' = acls
      ELSE last'.exc = "none" /\ acls' = DecodeFrom(NewDict(Path), last'.out).d

Swap(q, i, j) == [k \in 1..Len(q) |-> IF k = i THEN q[j] ELSE IF k = j THEN q[i] ELSE q[k]]

\* Every line is of one of the eight forms and no two populate the same target.
IsDuplicateFree(lines) ==
  \A i \in 1..Len(lines) : IsRecognized(lines[i]) /\ IsLastFor(lines, i)

\* C9: with no field and no name populated twice, the order of the lines does
\* not matter.  Every permutation is a product of exchanges of two lines, so
\* the claim is that no exchange changes the outcome.
C9_OrderIndependent ==
  (RanGetAcl /\ last.rc = 0 /\ IsDuplicateFree(last.out)) =>
    \A i, j \in 1..Len(last.out) : SameOutcome(Swap(last.out, i, j))

\* C10: a name with two or more named lines has one entry, that of the last.
C10_LastWriteWins ==
  (Decoded /\ last.rc = 0) =>
    \A i \in 1..Len(last.out) :
      \A word \in {WordUser, WordGroup} :
        (/\ IsNamedLine(word, last.out[i])
         /\ IsLastFor(last.out, i)
         /\ \E j \in 1..(i - 1) : Target(last.out[j]) = Target(last.out[i])) =>
          LET m == acls[IF word = WordUser THEN "USERS" ELSE "GROUPS"]
          IN  /\ Split(last.out[i])[2] \in DOMAIN m
              /\ m[Split(last.out[i])[2]] = EntryOf(last.out[i])

\* ---- the dry run

PutOps == {"set_acl", "set_default_acl", "fn_set_acl", "fn_set_default_acl"}

\* The call names the file and the file of ACL lines.
CanPut(args) == args.aclfile # NoneVal /\ args.filename # NoneVal

OptOf(op) == IF op \in {"set_acl", "fn_set_acl"} THEN OptAcl ELSE OptDefaultAcl

\* The command ran if and only if dry is false; in a dry run it was printed.
Gated(dry, call, out) ==
  /\ call.cmd \in {"none", OptOf(call.op)}
  /\ (call.cmd = OptOf(call.op)) <=> ~dry
  /\ dry => /\ call.exc = "none"
            /\ out = <<<<OptOf(call.op), call.arg.aclfile, call.arg.filename>>>>

\* C12: whatever the flag methods did before, a set_acl or set_default_acl that
\* names its files runs mmputacl if and only if the dry-run flag (self.dryrun
\* for the methods, the argument dryrun for the module's functions) is false
\* when it is called; in a dry run the command is printed and not run; verbose
\* and debug make no difference to that.
C12_Step ==
  (last'.op \in PutOps /\ CanPut(last'.arg)) =>
    Gated(IF last'.op \in {"set_acl", "set_default_acl"} THEN dryrun ELSE last'.arg.dryrun,
          last', printed')

C12_DryrunGates == [][C12_Step]_vars

\* With dryrun, verbose and debug all set, set_acl printed the command and did
\* not run it.
C12_Witness ==
  /\ last.op = "set_acl"
  /\ CanPut(last.arg)
  /\ dryrun /\ verbose /\ debug
  /\ last.cmd = "none"
  /\ printed # <<>>

\* ---- clear_acls

ClearedKeys == {"MASK", "USERS", "GROUPS"}

\* C13: clear_acls on a record takes out MASK, USERS and GROUPS and nothing
\* else, leaves the values of the other fields and the three flags as they
\* were, and a clear_acls right after another changes nothing; neither raises.
C13_Step ==
  (last'.op = "clear_acls" /\ acls # Unset) =>
    /\ last'.exc = "none"
    /\ DOMAIN acls' = DOMAIN acls \ ClearedKeys
    /\ \A k \in DOMAIN acls' : acls'[k] = acls[k]
    /\ debug' = debug /\ dryrun' = dryrun /\ verbose' = verbose
    /\ (last.op = "clear_acls" /\ last.exc = "none") => acls' = acls

C13_ClearAclsFrame == [][C13_Step]_vars

\* A record with a mask and a named group was cleared, with flags set.
C13_Witness ==
  /\ head = HeadMask
  /\ body = <<LGroupWg>>
  /\ last.op = "clear_acls"
  /\ last.exc = "none"
  /\ Has(acls, "OWNER") /\ Has(acls, "USERP")
  /\ ~Has(acls, "MASK") /\ ~Has(acls, "GROUPS")
  /\ dryrun /\ verbose

====
